---- MODULE Spec2Model ----
\* Purchase planning wizard (purchase.planning) and its report table
\* (purchase.planning.line), modelled from wizards/purchase_planning.py.
EXTENDS Integers, Sequences, FiniteSets, TLC

\* ------------------------------------------------------------------ bounds

\* Calendar days are 1..MaxDay.
MaxDay == 2
\* Instants per day: tick 0 is datetime.min.time(), the last tick datetime.max.time().
TicksPerDay == 2
\* Most stock.move.line records in the ledger.
MaxMoves == 2
\* action_show_results is explored while the id sequence of the report table is <= MaxId.
MaxId == 3

\* ------------------------------------------------------------------ values

\* Python False / the id of an empty recordset.
NoId == 0

Days == 1..MaxDay

\* product.product ids; 1 and 2 are variants of template 1, 3 is the variant of template 2.
Products == {1, 2, 3}
Templates == {1, 2}
product_tmpl_id(p) == IF p = 3 THEN 2 ELSE 1
\* product.category: template 1 is in category 1, template 2 in category 2.
Categories == {1, 2}
categ_id(p) == product_tmpl_id(p)
Warehouses == {1, 2}
\* res.partner: 1 is a company, 2 is a contact of company 1.
Partners == {1, 2}
parent_id(partner) == IF partner = 2 THEN 1 ELSE NoId
commercial_partner_id(partner) ==
    IF partner = NoId THEN NoId
    ELSE IF parent_id(partner) = NoId THEN partner ELSE parent_id(partner)

\* datetime.combine(day, datetime.min.time()) and datetime.combine(day, datetime.max.time())
combine_min(day) == day * TicksPerDay
combine_max(day) == day * TicksPerDay + (TicksPerDay - 1)

\* ------------------------------------------------------------------ state

VARIABLES
    \* the database the wizard reads
    active,          \* product.product records with active = True
    purchase_ok,     \* product.template records with purchase_ok = True
    supplierinfos,   \* product.supplierinfo records
    move_lines,      \* stock.move.line records, in id order
    \* the wizard record (purchase.planning)
    partner_id, date_begin, date_end,
    show_all_partner_products, show_all_products,
    product_category_ids, warehouse_ids,
    \* the report table (purchase.planning.line) and its id sequence
    lines, next_id,
    \* the report table as committed in the database: what a later request finds
    committed,
    \* outcome of the last action_show_results: "none", "done" or "error"
    status,
    \* the exception of the last action_show_results, "" when none
    error,
    \* value of the id sequence when the last action_show_results began
    first_id,
    \* concurrent sessions: each a wizard record and its position in action_show_results
    sess

db_vars == <<active, purchase_ok, supplierinfos, move_lines>>
wizard_vars == <<partner_id, date_begin, date_end, show_all_partner_products,
                 show_all_products, product_category_ids, warehouse_ids>>
table_vars == <<lines, next_id>>
run_vars == <<status, error, first_id>>
vars == <<db_vars, wizard_vars, table_vars, committed, run_vars, sess>>

\* ------------------------------------------------------------------ recordsets and dicts

\* A set of ids as a recordset in ascending id order.
SetToSeq(S) ==
    [i \in 1..Cardinality(S) |-> CHOOSE x \in S : Cardinality({y \in S : y < x}) = i - 1]

Range(s) == {s[i] : i \in 1..Len(s)}

RECURSIVE SumSeq(_)
SumSeq(s) == IF s = <<>> THEN 0 ELSE Head(s) + SumSeq(Tail(s))

\* The elements of s at the indices idx, in that order.
Pick(s, idx) == [k \in 1..Len(idx) |-> s[idx[k]]]

\* Union of records keeping the first occurrence of each (recordset.mapped on a relation).
Uniq(s) == Pick(s, SetToSeq({i \in 1..Len(s) : \A j \in 1..(i - 1) : s[j] # s[i]}))

\* dict.get(key, default) on a dict modelled as a function from key names.
get(d, k, default) == IF k \in DOMAIN d THEN d[k] ELSE default
\* d[k] = v
put(d, k, v) == (k :> v) @@ d

\* An insertion-ordered dict is a sequence of [key, val] with distinct keys.
od_keys(od) == {od[i].key : i \in 1..Len(od)}
od_get(od, k) == od[CHOOSE i \in 1..Len(od) : od[i].key = k].val
\* od[k] = v: replaces in place, or appends a new key.
od_set(od, k, v) ==
    IF k \in od_keys(od)
    THEN [i \in 1..Len(od) |-> IF od[i].key = k THEN [key |-> k, val |-> v] ELSE od[i]]
    ELSE Append(od, [key |-> k, val |-> v])

\* ------------------------------------------------------------------ external collaborators

\* product.supplierinfo records a database may hold: vendor (name), template, optional
\* variant, price and currency. Prices are distinct, so that search order is decided.
SupplierinfoUniverse ==
    { [name |-> 1, product_tmpl_id |-> 1, product_id |-> NoId, price |-> 10, currency_id |-> 1],
      [name |-> 1, product_tmpl_id |-> 1, product_id |-> 1,    price |-> 8,  currency_id |-> 1],
      [name |-> 1, product_tmpl_id |-> 2, product_id |-> NoId, price |-> 5,  currency_id |-> 2],
      [name |-> 2, product_tmpl_id |-> 2, product_id |-> 3,    price |-> 4,  currency_id |-> 2] }

\* product.supplierinfo._order = "sequence, min_qty desc, price": here by price.
ByPrice(S) ==
    [i \in 1..Cardinality(S) |->
        CHOOSE x \in S : Cardinality({y \in S : y.price < x.price}) = i - 1]

\* env["product.supplierinfo"].search([("name", "=", partner)]); name is a required field,
\* so no record matches partner = False.
search_supplierinfo(partner) == ByPrice({s \in supplierinfos : s.name = partner})

\* product.template.active: a template is active while it has an active variant.
template_active(t) == \E p \in Products : product_tmpl_id(p) = t /\ p \in active
\* product.template.product_variant_ids: the active variants, in id order.
product_variant_ids(t) == SetToSeq({p \in active : product_tmpl_id(p) = t})
\* product.product.purchase_ok is the template's flag.
product_purchase_ok(p) == product_tmpl_id(p) \in purchase_ok

\* recordset[:1]
first_record(rs) == IF rs = <<>> THEN <<>> ELSE <<rs[1]>>

\* The sellers among which _select_seller chooses for product p and vendor partner.
matching_sellers(sellers, p, partner) ==
    SelectSeq(sellers,
              LAMBDA s : /\ (partner = NoId \/ s.name \in {partner, parent_id(partner)})
                         /\ (s.product_id = NoId \/ s.product_id = p))

\* product.product._select_seller(partner_id, date, quantity = 1, uom_id): the cheapest
\* seller of the product's template that is of this vendor (or of its parent) when a
\* vendor is given, and is not bound to another variant; an empty recordset otherwise.
_select_seller(p, partner) ==
    first_record(matching_sellers(
        ByPrice({s \in supplierinfos : s.product_tmpl_id = product_tmpl_id(p)}),
        p, partner))

\* Field access on a recordset of at most one seller: an empty recordset gives the
\* null value of the field's type, 0.0 for a float and False for a relation's id.
seller_price(rs) == IF rs = <<>> THEN 0 ELSE rs[1].price
seller_currency_id(rs) == IF rs = <<>> THEN NoId ELSE rs[1].currency_id
seller_name_id(rs) == IF rs = <<>> THEN NoId ELSE rs[1].name

\* Stock-level provider: on-hand and forecast units of product p in warehouse wh.
stock_on_hand(p, wh) == p * wh
stock_forecast(p, wh) == p * wh + wh
\* Sum over the warehouses whs of product.with_context(warehouse = wh).qty_available;
\* product.qty_available without a warehouse in the context is the sum over all of them.
qty_available(p, whs) == SumSeq([i \in 1..Len(whs) |-> stock_on_hand(p, whs[i])])
\* The same for virtual_available.
virtual_available(p, whs) == SumSeq([i \in 1..Len(whs) |-> stock_forecast(p, whs[i])])

\* A stock.move.line record as the fields the domain reads.
MoveLine(p, date, src, dst, state, qty, wh) ==
    [product_id |-> p, date |-> date, location_usage |-> src, location_dest_usage |-> dst,
     state |-> state, qty_done |-> qty, warehouse_id |-> wh]

\* The stock.move.line records a ledger may hold, in a fixed order: a receipt at the
\* first instant of day 1, deliveries at the first instant of day 1 and at the last
\* instant of day MaxDay, in either warehouse, and a delivery that is not done.
MoveUniverse ==
    << MoveLine(1, combine_min(1), "supplier", "internal", "done", 1, 1),
       MoveLine(1, combine_max(MaxDay), "internal", "customer", "done", 2, 2),
       MoveLine(2, combine_min(1), "internal", "customer", "done", 1, 1),
       MoveLine(3, combine_min(1), "internal", "customer", "done", 2, 2),
       MoveLine(1, combine_min(1), "internal", "customer", "assigned", 1, 1) >>

\* One term of a search domain evaluated on a stock.move.line.
term_holds(term, m) ==
    CASE term[1] = "product_id" -> m.product_id \in term[3]
      [] term[1] = "date" /\ term[2] = ">=" -> m.date >= term[3]
      [] term[1] = "date" /\ term[2] = "<=" -> m.date <= term[3]
      [] term[1] = "location_id.usage" -> m.location_usage = term[3]
      [] term[1] = "location_dest_id.usage" -> m.location_dest_usage = term[3]
      [] term[1] = "state" -> m.state = term[3]
      [] term[1] = "picking_id.picking_type_id.warehouse_id" -> m.warehouse_id \in term[3]

domain_holds(domain, m) == \A i \in 1..Len(domain) : term_holds(domain[i], m)

\* One group of read_group: product p and the ledger indices idx of its matching lines.
group_row(p, idx) ==
    [product_id |-> p,
     product_id_count |-> Len(idx),
     qty_done |-> SumSeq([j \in 1..Len(idx) |-> move_lines[idx[j]].qty_done])]

\* The groups of the matching ledger indices hit, for the products ps.
group_rows(hit, ps) ==
    [k \in 1..Len(ps) |-> group_row(ps[k], SetToSeq({i \in hit : move_lines[i].product_id = ps[k]}))]

\* The groups of the matching ledger indices hit, in product order.
group_by_product(hit) == group_rows(hit, SetToSeq({move_lines[i].product_id : i \in hit}))

\* env["stock.move.line"].read_group(domain, ["product_id", "qty_done"], ["product_id"]):
\* one group per product with matching lines, with the count of the lines and the sum
\* of qty_done.
read_group(domain) ==
    group_by_product({i \in 1..Len(move_lines) : domain_holds(domain, move_lines[i])})

\* env["product.product"].search(domain) for the domain of _get_all_products_domain:
\* active products only, in id order.
search_products(domain) ==
    SetToSeq({p \in active :
        \A i \in 1..Len(domain) :
            CASE domain[i][1] = "purchase_ok" -> product_purchase_ok(p) = domain[i][3]
              [] domain[i][1] = "categ_id" -> categ_id(p) \in domain[i][3]})

\* ------------------------------------------------------------------ the wizard's methods

\* _get_total_days: (date_end + timedelta(days = 1) - date_begin).days
_get_total_days(w) == (w.date_end + 1) - w.date_begin

\* supplierinfos.mapped("product_tmpl_id").filtered(lambda x: x.active and x.purchase_ok)
supplier_product_tmpls(sinfos) ==
    SelectSeq(Uniq([i \in 1..Len(sinfos) |-> sinfos[i].product_tmpl_id]),
              LAMBDA t : template_active(t) /\ t \in purchase_ok)

\* recordset.mapped("product_id"): the variants set on the records, each once.
mapped_product_id(sinfos) == Uniq([i \in 1..Len(sinfos) |-> sinfos[i].product_id])

\* supplierinfos.mapped("product_id").filtered(lambda x: x.active and x.purchase_ok)
supplier_products(sinfos) ==
    SelectSeq(mapped_product_id(SelectSeq(sinfos, LAMBDA s : s.product_id # NoId)),
              LAMBDA p : p \in active /\ product_purchase_ok(p))

RECURSIVE mapped_product_variant_ids(_)
\* product_tmpls.mapped("product_variant_ids")
mapped_product_variant_ids(tmpls) ==
    IF tmpls = <<>> THEN <<>>
    ELSE product_variant_ids(Head(tmpls)) \o mapped_product_variant_ids(Tail(tmpls))

\* products += product_tmpls.mapped("product_variant_ids"): the concatenation, in which
\* a variant can stand twice.
products_of_supplierinfos(sinfos) ==
    supplier_products(sinfos) \o mapped_product_variant_ids(supplier_product_tmpls(sinfos))

\* _get_supplier_products that searches without a domain when no vendor is selected.
_get_supplier_products_no_domain(w) ==
    products_of_supplierinfos(
        IF w.partner_id = NoId THEN ByPrice(supplierinfos)
        ELSE search_supplierinfo(commercial_partner_id(w.partner_id)))

_get_supplier_products(w) ==
    products_of_supplierinfos(search_supplierinfo(commercial_partner_id(w.partner_id)))

\* products.filtered(lambda x: x.categ_id in self.product_category_ids), if set
filter_by_category(w, products) ==
    IF w.product_category_ids # {}
    THEN SelectSeq(products, LAMBDA x : categ_id(x) \in w.product_category_ids)
    ELSE products

_get_products(w) == filter_by_category(w, _get_supplier_products(w))

_get_move_line_domain(w, products, src, dst) ==
    << <<"product_id", "in", Range(products)>>,
       <<"date", ">=", combine_min(w.date_begin)>>,
       <<"date", "<=", combine_max(w.date_end)>> ,
       <<"location_id.usage", "=", src>>,
       <<"location_dest_id.usage", "=", dst>>,
       <<"state", "=", "done">> >>
    \o (IF w.warehouse_ids # {}
        THEN << <<"picking_id.picking_type_id.warehouse_id", "in", w.warehouse_ids>> >>
        ELSE <<>>)

_get_all_products_domain(w) ==
    << <<"purchase_ok", "=", TRUE>> >>
    \o (IF w.product_category_ids # {}
        THEN << <<"categ_id", "in", w.product_category_ids>> >>
        ELSE <<>>)

\* The sort key of _find_move_line: (product_id_count, qty_done).
key_less(a, b) ==
    \/ a.product_id_count < b.product_id_count
    \/ a.product_id_count = b.product_id_count /\ a.qty_done < b.qty_done

\* The place of s[i] in sorted(s, key = ..., reverse = True): after the elements with a
\* greater key and after the earlier elements with the same key (the sort is stable).
sorted_place(s, i) ==
    1 + Cardinality({j \in 1..Len(s) :
            \/ key_less(s[i], s[j])
            \/ ~ key_less(s[j], s[i]) /\ j < i})

\* sorted(found_lines, key = lambda res: (res["product_id_count"], res["qty_done"]),
\*        reverse = True)
sorted_reverse(s) ==
    [k \in 1..Len(s) |-> s[CHOOSE i \in 1..Len(s) : sorted_place(s, i) = k]]

\* found_lines = {line["id"]: line for line in found_lines}
found_lines_dict(found) ==
    [i \in 1..Len(found) |->
        [key |-> found[i].product_id,
         val |-> ("id" :> found[i].product_id)
                 @@ ("product_id" :> found[i].product_id)
                 @@ ("product_id_count" :> found[i].product_id_count)
                 @@ ("qty_done" :> found[i].qty_done)]]

RECURSIVE update_missing(_, _)
\* for product in products: found_lines.update({product.id: {"product_id": product}})
update_missing(od, products) ==
    IF products = <<>> THEN od
    ELSE update_missing(od_set(od, Head(products), "product_id" :> Head(products)),
                        Tail(products))

\* if self.show_all_products: products += env["product.product"].search(...)
with_all_products(w, products) ==
    IF w.show_all_products
    THEN products \o search_products(_get_all_products_domain(w))
    ELSE products

\* show_all that looks at show_all_products alone.
show_all_products_only(w, products, found_lines) ==
    IF w.show_all_products
    THEN update_missing(found_lines,
            SelectSeq(with_all_products(w, products),
                      LAMBDA p : p \notin od_keys(found_lines)))
    ELSE found_lines

\* The end of _find_move_line: with either flag set, every product of products that
\* found_lines lacks gets the entry {"product_id": product}.
show_all(w, products, found_lines) ==
    IF w.show_all_partner_products \/ w.show_all_products
    THEN update_missing(found_lines,
            SelectSeq(with_all_products(w, products),
                      LAMBDA p : p \notin od_keys(found_lines)))
    ELSE found_lines

\* _find_move_line once products = self._get_products() is known.
find_move_line_of(w, products, src, dst) ==
    show_all(w, products,
        found_lines_dict(sorted_reverse(read_group(
            _get_move_line_domain(w, products, src, dst)))))

_find_move_line(w, src, dst) == find_move_line_of(w, _get_products(w), src, dst)

\* The value of a Python true division n / d with d # 0, kept as the fraction.
Quotient(n, d) == [num |-> n, den |-> d]

\* wizard_line that falls back on the wizard's vendor when there is no seller.
wizard_line_wizard_vendor(w, vals, units_available, units_virtual_available, seller) ==
    [product_id |-> vals["product_id"],
     partner_id |-> IF seller = <<>> THEN w.partner_id ELSE seller_name_id(seller),
     times_delivered |-> get(vals, "times_delivered", 0),
     times_received |-> get(vals, "times_received", 0),
     units_received |-> get(vals, "qty_received", 0),
     units_available |-> units_available,
     units_virtual_available |-> units_virtual_available,
     units_avg_delivered |-> [num |-> get(vals, "qty_delivered", 0), den |-> _get_total_days(w)],
     units_delivered |-> get(vals, "qty_delivered", 0),
     price_unit |-> seller_price(seller),
     currency_id |-> seller_currency_id(seller)]

\* The values of one report row, given the stock levels and the seller that
\* _prepare_wizard_line looks up (the seller three times over, with the same arguments).
wizard_line(w, vals, units_available, units_virtual_available, seller) ==
    [product_id |-> vals["product_id"],
     partner_id |-> seller_name_id(seller),
     times_delivered |-> get(vals, "times_delivered", 0),
     times_received |-> get(vals, "times_received", 0),
     units_received |-> get(vals, "qty_received", 0),
     units_available |-> units_available,
     units_virtual_available |-> units_virtual_available,
     units_avg_delivered |-> Quotient(get(vals, "qty_delivered", 0), _get_total_days(w)),
     units_delivered |-> get(vals, "qty_delivered", 0),
     price_unit |-> seller_price(seller),
     currency_id |-> seller_currency_id(seller)]

\* The warehouses whose stock a row reports: self.warehouse_ids, or all of them.
stock_scope(w) == SetToSeq(IF w.warehouse_ids # {} THEN w.warehouse_ids ELSE Warehouses)

\* _prepare_wizard_line(vals). The division raises ZeroDivisionError when
\* _get_total_days() is 0 (see raises_ZeroDivisionError).
_prepare_wizard_line(w, vals) ==
    wizard_line(w, vals,
                qty_available(vals["product_id"], stock_scope(w)),
                virtual_available(vals["product_id"], stock_scope(w)),
                _select_seller(vals["product_id"], w.partner_id))

\* vals.get("qty_delivered", 0) / self._get_total_days() raises when the divisor is 0.
raises_ZeroDivisionError(w) == _get_total_days(w) = 0

\* The first loop of action_show_results: qty_received and times_received on every line.
set_received(found_dict) ==
    [i \in 1..Len(found_dict) |->
        [key |-> found_dict[i].key,
         val |-> put(put(found_dict[i].val,
                         "qty_received", get(found_dict[i].val, "qty_done", 0)),
                     "times_received", get(found_dict[i].val, "product_id_count", 0))]]

\* merge_line with found_dict[product] = line done for every product, also one that
\* found_dict already holds.
merge_line_overwrite(found_dict, product, line) ==
    od_set(found_dict, product,
           put(put(line, "qty_delivered", get(line, "qty_done", 0)),
               "times_delivered", get(line, "product_id_count", 0)))

\* One turn of the merge loop: found_dict[product] = line if found_dict has no such
\* product, then qty_delivered and times_delivered on found_dict[product].
merge_line(found_dict, product, line) ==
    od_set(found_dict, product,
           put(put(IF product \in od_keys(found_dict) THEN od_get(found_dict, product)
                   ELSE line,
                   "qty_delivered", get(line, "qty_done", 0)),
               "times_delivered", get(line, "product_id_count", 0)))

RECURSIVE merge_delivered(_, _)
\* The merge loop of action_show_results over found_delivered_dict.items().
merge_delivered(found_dict, delivered) ==
    IF delivered = <<>> THEN found_dict
    ELSE merge_delivered(merge_line(found_dict, Head(delivered).key, Head(delivered).val),
                         Tail(delivered))

\* found_dict of action_show_results after both loops: the merged lines, in the order
\* the rows are created.
merged_lines(w) ==
    merge_delivered(set_received(_find_move_line(w, "supplier", "internal")),
                    _find_move_line(w, "internal", "customer"))

\* lines_obj.create(new_line) for the first k lines of found_dict, with ids from the
\* sequence.
created_rows(w, found_dict, from_id, k) ==
    { [id |-> from_id + i - 1] @@ _prepare_wizard_line(w, found_dict[i].val) : i \in 1..k }

\* ------------------------------------------------------------------ initial states

\* The wizard record as the methods read it.
Wizard(p, b, e, sap, sa, cats, whs) ==
    [partner_id |-> p, date_begin |-> b, date_end |-> e,
     show_all_partner_products |-> sap, show_all_products |-> sa,
     product_category_ids |-> cats, warehouse_ids |-> whs]

self == Wizard(partner_id, date_begin, date_end, show_all_partner_products,
               show_all_products, product_category_ids, warehouse_ids)

\* The values a wizard record can be created with: the dates are required but not
\* ordered, every other field is free.
WizardValues ==
    { Wizard(p, b, e, sap, sa, cats, whs) :
        p \in {NoId} \cup Partners, b \in Days, e \in Days,
        sap \in BOOLEAN, sa \in BOOLEAN,
        cats \in {{}, {1}}, whs \in {{}, {1}} }

\* The wizards of repeated and of concurrent invocations: no filter, no vendor or the
\* company, and a window of one day, of every day, or of no day at all.
RerunValues ==
    { w \in WizardValues :
        /\ w.product_category_ids = {} /\ w.warehouse_ids = {}
        /\ w.partner_id # 2
        /\ <<w.date_begin, w.date_end>> \in {<<1, 1>>, <<1, MaxDay>>, <<MaxDay, MaxDay - 1>>} }

\* Ledgers of at most MaxMoves lines drawn from MoveUniverse (in the order of MoveUniverse,
\* the same line possibly twice).
Ledgers ==
    UNION { { [i \in 1..n |-> MoveUniverse[f[i]]] :
                f \in { g \in [1..n -> 1..Len(MoveUniverse)] :
                          \A i \in 1..n, j \in 1..n : i <= j => g[i] <= g[j] } } :
            n \in 0..MaxMoves }

\* Catalogs: every product active and purchasable, variant 2 archived, or template 2
\* not purchasable.
Catalogs ==
    { <<Products, Templates>>, <<Products \ {2}, Templates>>, <<Products, Templates \ {2}>> }

InitWizard ==
    /\ partner_id = NoId
    /\ date_begin = 1 /\ date_end = 1
    /\ show_all_partner_products = TRUE
    /\ show_all_products = FALSE
    /\ product_category_ids = {}
    /\ warehouse_ids = {}

InitTable ==
    /\ lines = {} /\ next_id = 1
    /\ committed = {}
    /\ status = "none" /\ error = "" /\ first_id = 1

\* Any catalog, any set of supplierinfos, any ledger.
Init ==
    /\ \E c \in Catalogs : active = c[1] /\ purchase_ok = c[2]
    /\ supplierinfos \in SUBSET SupplierinfoUniverse
    /\ move_lines \in Ledgers
    /\ InitWizard /\ InitTable
    /\ sess = <<>>

\* The company supplies both templates; any ledger.
InitSmall ==
    /\ active = Products /\ purchase_ok = Templates
    /\ supplierinfos = {s \in SupplierinfoUniverse : s.name = 1 /\ s.product_id = NoId}
    /\ move_lines \in Ledgers
    /\ InitWizard /\ InitTable
    /\ sess = <<>>

\* ------------------------------------------------------------------ action_show_results

\* The wizard record the button is pressed on.
open_wizard(w) ==
    /\ partner_id' = w.partner_id
    /\ date_begin' = w.date_begin
    /\ date_end' = w.date_end
    /\ show_all_partner_products' = w.show_all_partner_products
    /\ show_all_products' = w.show_all_products
    /\ product_category_ids' = w.product_category_ids
    /\ warehouse_ids' = w.warehouse_ids

\* action_show_results without lines_obj.search([]).unlink().
action_show_results_without_unlink(w, found_dict) ==
    /\ ~ (Len(found_dict) > 0 /\ raises_ZeroDivisionError(w))
    /\ open_wizard(w)
    /\ lines' = lines \cup created_rows(w, found_dict, next_id, Len(found_dict))
    /\ next_id' = next_id + Len(found_dict)
    /\ status' = "done" /\ error' = "" /\ first_id' = next_id
    /\ UNCHANGED <<db_vars, committed, sess>>

\* action_show_results on wizard w, whose merged lines are found_dict, runs to its
\* return statement: the table is emptied, then one row is created per merged line.
action_show_results(w, found_dict) ==
    /\ ~ (Len(found_dict) > 0 /\ raises_ZeroDivisionError(w))
    /\ open_wizard(w)
    /\ lines' = created_rows(w, found_dict, next_id, Len(found_dict))
    /\ next_id' = next_id + Len(found_dict)
    /\ status' = "done" /\ error' = "" /\ first_id' = next_id
    /\ UNCHANGED <<db_vars, committed, sess>>

\* action_show_results on wizard w stops at the division of the first row: unlink() has
\* run, no row has been created, the exception leaves the method. Nothing in the
\* method restores the rows it deleted.
action_show_results_ZeroDivisionError(w, found_dict) ==
    /\ Len(found_dict) > 0
    /\ raises_ZeroDivisionError(w)
    /\ open_wizard(w)
    /\ lines' = {}
    /\ next_id' = next_id
    /\ status' = "error" /\ error' = "ZeroDivisionError" /\ first_id' = next_id
    /\ UNCHANGED <<db_vars, committed, sess>>

\* The table at the moment a collaborator raises: at search([]).unlink() itself, with
\* nothing deleted yet, or after it and after k rows have been created.
table_at_raise(w, found_dict, unlinked, k) ==
    IF unlinked THEN created_rows(w, found_dict, next_id, k) ELSE lines

\* action_show_results with a cr.commit() after each of its writes.
action_show_results_CollaboratorError_commits(w, found_dict) ==
    \E unlinked \in BOOLEAN, k \in 0..Len(found_dict) :
        /\ (~ unlinked) => k = 0
        /\ (Len(found_dict) > 0 /\ raises_ZeroDivisionError(w)) => k = 0
        /\ open_wizard(w)
        /\ lines' = table_at_raise(w, found_dict, unlinked, k)
        /\ committed' = table_at_raise(w, found_dict, unlinked, k)
        /\ next_id' = next_id + k
        /\ status' = "error" /\ error' = "CollaboratorError" /\ first_id' = next_id
        /\ UNCHANGED <<db_vars, sess>>

\* action_show_results on wizard w stops at a call of an external collaborator that
\* raises; nothing in the method catches the exception, restores the rows or commits.
action_show_results_CollaboratorError(w, found_dict) ==
    \E unlinked \in BOOLEAN, k \in 0..Len(found_dict) :
        /\ (~ unlinked) => k = 0
        /\ (Len(found_dict) > 0 /\ raises_ZeroDivisionError(w)) => k = 0
        /\ open_wizard(w)
        /\ lines' = table_at_raise(w, found_dict, unlinked, k)
        /\ next_id' = next_id + k
        /\ status' = "error" /\ error' = "CollaboratorError" /\ first_id' = next_id
        /\ UNCHANGED <<db_vars, committed, sess>>

\* One invocation, on a wizard with any values, from any database; the collaborators
\* answer.
ShowResults ==
    /\ status = "none"
    /\ \E w \in WizardValues : action_show_results(w, merged_lines(w))

ShowResultsZeroDivisionError ==
    /\ status = "none"
    /\ \E w \in WizardValues : action_show_results_ZeroDivisionError(w, merged_lines(w))

Next == ShowResults \/ ShowResultsZeroDivisionError

Spec == Init /\ [][Next]_vars

\* Request after request, each pressing the button on a new wizard, while the id
\* sequence is at most MaxId; a collaborator may fail. A request begins on the
\* committed table: the transaction of the request before it has ended.
ShowResultsAgain ==
    /\ next_id <= MaxId
    /\ lines = committed
    /\ \E w \in RerunValues : action_show_results(w, merged_lines(w))

ShowResultsAgainZeroDivisionError ==
    /\ next_id <= MaxId
    /\ lines = committed
    /\ \E w \in RerunValues : action_show_results_ZeroDivisionError(w, merged_lines(w))

ShowResultsAgainCollaboratorError ==
    /\ next_id <= MaxId
    /\ lines = committed
    /\ \E w \in RerunValues : action_show_results_CollaboratorError(w, merged_lines(w))

\* The request whose action_show_results returned ends: its transaction is committed.
request_commit ==
    /\ status = "done"
    /\ lines # committed
    /\ committed' = lines
    /\ UNCHANGED <<db_vars, wizard_vars, table_vars, run_vars, sess>>

\* The request whose action_show_results raised ends: the exception reaches the
\* caller of the method and the transaction is rolled back, the writes of the method
\* with it.
request_rollback ==
    /\ status = "error"
    /\ lines # committed
    /\ lines' = committed
    /\ UNCHANGED <<db_vars, wizard_vars, next_id, committed, run_vars, sess>>

NextRerun ==
    \/ ShowResultsAgain
    \/ ShowResultsAgainZeroDivisionError
    \/ ShowResultsAgainCollaboratorError
    \/ request_commit
    \/ request_rollback

SpecRerun == InitSmall /\ [][NextRerun]_vars

\* ------------------------------------------------------------------ the wizard form

\* onchange_show_all_products on the values w of the form.
onchange_show_all_products(w) ==
    IF w.show_all_products
    THEN [w EXCEPT !.show_all_partner_products = FALSE, !.partner_id = NoId]
    ELSE w

\* The user sets show_all_products to another value; the form runs the onchange method.
edit_show_all_products ==
    /\ open_wizard(onchange_show_all_products(
           [self EXCEPT !.show_all_products = ~ show_all_products]))
    /\ UNCHANGED <<db_vars, committed, table_vars, run_vars, sess>>

\* The user sets show_all_partner_products to another value; no onchange method is
\* bound to the field.
edit_show_all_partner_products ==
    /\ show_all_partner_products' = ~ show_all_partner_products
    /\ UNCHANGED <<db_vars, committed, table_vars, run_vars, sess, partner_id, date_begin, date_end,
                   show_all_products, product_category_ids, warehouse_ids>>

\* The user selects or clears the vendor; no onchange method is bound to the field.
edit_partner_id ==
    /\ \E p \in {NoId} \cup Partners : p # partner_id /\ partner_id' = p
    /\ UNCHANGED <<db_vars, committed, table_vars, run_vars, sess, date_begin, date_end,
                   show_all_partner_products, show_all_products, product_category_ids,
                   warehouse_ids>>

\* The user sets either date, the category filter or the warehouse filter.
edit_dates_and_filters ==
    /\ \E w \in WizardValues :
          /\ w.partner_id = partner_id
          /\ w.show_all_partner_products = show_all_partner_products
          /\ w.show_all_products = show_all_products
          /\ Cardinality({f \in {"date_begin", "date_end", "product_category_ids",
                                 "warehouse_ids"} : w[f] # self[f]}) = 1
          /\ open_wizard(w)
    /\ UNCHANGED <<db_vars, committed, table_vars, run_vars, sess>>

NextWizard ==
    \/ edit_show_all_products
    \/ edit_show_all_partner_products
    \/ edit_partner_id
    \/ edit_dates_and_filters

SpecWizard == InitSmall /\ [][NextWizard]_vars

\* ------------------------------------------------------------------ two sessions

Sessions == {1, 2}

\* The wizards of the two sessions: the company as vendor, any flags, the window of
\* every day or of no day.
SessionValues ==
    { w \in RerunValues : w.partner_id = 1 /\ w.date_begin # w.date_end }

InitSessions ==
    /\ active = Products /\ purchase_ok = Templates
    /\ supplierinfos = {s \in SupplierinfoUniverse : s.name = 1 /\ s.product_id = NoId}
    /\ move_lines \in Ledgers
    /\ InitWizard /\ InitTable
    /\ sess = [pc |-> [s \in Sessions |-> "idle"],
               wizard |-> [s \in Sessions |-> self],
               found_dict |-> [s \in Sessions |-> <<>>],
               returned |-> <<>>]

\* Session s presses the button on a wizard with values w.
session_begin(s) ==
    /\ sess.pc[s] = "idle"
    /\ \E w \in SessionValues :
          sess' = [sess EXCEPT !.pc[s] = "unlink", !.wizard[s] = w]
    /\ UNCHANGED <<db_vars, committed, wizard_vars, table_vars, run_vars>>

\* lines_obj.search([]).unlink() of session s: every row of the table is deleted; the
\* two _find_move_line calls and the merge follow, which read the database only.
session_unlink(s) ==
    /\ sess.pc[s] = "unlink"
    /\ lines' = {}
    /\ sess' = [sess EXCEPT !.pc[s] = "create",
                            !.found_dict[s] = merged_lines(sess.wizard[s])]
    /\ UNCHANGED <<db_vars, committed, wizard_vars, next_id, run_vars>>

\* One turn of the last loop of session s: lines_obj.create(new_line).
session_create(s) ==
    /\ sess.pc[s] = "create"
    /\ sess.found_dict[s] # <<>>
    /\ ~ raises_ZeroDivisionError(sess.wizard[s])
    /\ lines' = lines \cup created_rows(sess.wizard[s], sess.found_dict[s], next_id, 1)
    /\ next_id' = next_id + 1
    /\ sess' = [sess EXCEPT !.found_dict[s] = Tail(sess.found_dict[s])]
    /\ UNCHANGED <<db_vars, committed, wizard_vars, run_vars>>

\* The division of _prepare_wizard_line raises in session s.
session_raise(s) ==
    /\ sess.pc[s] = "create"
    /\ sess.found_dict[s] # <<>>
    /\ raises_ZeroDivisionError(sess.wizard[s])
    /\ sess' = [sess EXCEPT !.pc[s] = "error"]
    /\ UNCHANGED <<db_vars, committed, wizard_vars, table_vars, run_vars>>

\* The loop of session s is over: action_show_results returns.
session_return(s) ==
    /\ sess.pc[s] = "create"
    /\ sess.found_dict[s] = <<>>
    /\ sess' = [sess EXCEPT !.pc[s] = "done", !.returned = Append(sess.returned, s)]
    /\ UNCHANGED <<db_vars, committed, wizard_vars, table_vars, run_vars>>

NextSessions ==
    \E s \in Sessions :
        \/ session_begin(s)
        \/ session_unlink(s)
        \/ session_create(s)
        \/ session_raise(s)
        \/ session_return(s)

SpecSessions == InitSessions /\ [][NextSessions]_vars

\* ------------------------------------------------------------------ properties of one invocation

\* The ledger lines of product p that a request counts for the pair (src, dst): done,
\* inside the inclusive window, with these location kinds, in a selected warehouse if
\* warehouses are selected.
counted(p, src, dst) ==
    {i \in 1..Len(move_lines) :
        /\ move_lines[i].product_id = p
        /\ move_lines[i].state = "done"
        /\ move_lines[i].location_usage = src
        /\ move_lines[i].location_dest_usage = dst
        /\ move_lines[i].date >= combine_min(date_begin)
        /\ move_lines[i].date <= combine_max(date_end)
        /\ (warehouse_ids = {} \/ move_lines[i].warehouse_id \in warehouse_ids)}

\* The sum of qty_done over the ledger lines I.
units(I) == SumSeq([j \in 1..Cardinality(I) |-> move_lines[SetToSeq(I)[j]].qty_done])

\* Product p is in the aggregate of (src, dst): a candidate with counted lines.
in_aggregate(p, src, dst) ==
    p \in Range(_get_products(self)) /\ counted(p, src, dst) # {}

\* Row r reports the received and the delivered lines of its product, 0 where none.
reports_movements(r) ==
    /\ r.times_received = Cardinality(counted(r.product_id, "supplier", "internal"))
    /\ r.units_received = units(counted(r.product_id, "supplier", "internal"))
    /\ r.times_delivered = Cardinality(counted(r.product_id, "internal", "customer"))
    /\ r.units_delivered = units(counted(r.product_id, "internal", "customer"))

\* C1: after action_show_results has completed, no product has two rows, and every
\* product of the received or of the delivered aggregate has a row that carries the
\* count and the quantity of both sides, 0 on the side without movements.
C1_OneRowPerAggregatedProduct ==
    status = "done" =>
        /\ \A r1 \in lines, r2 \in lines : r1.product_id = r2.product_id => r1 = r2
        /\ \A p \in Products :
              (in_aggregate(p, "supplier", "internal") \/ in_aggregate(p, "internal", "customer"))
              => \E r \in lines : r.product_id = p /\ reports_movements(r)

\* C1 witness: a product that stands twice in the supplier products (through a template
\* and through a variant association) was received and not delivered and has its row,
\* and another product was delivered and not received.
C1_Witness ==
    /\ status = "done"
    /\ \E p \in Products, q \in Products :
          /\ Cardinality({i \in 1..Len(_get_supplier_products(self)) :
                             _get_supplier_products(self)[i] = p}) = 2
          /\ in_aggregate(p, "supplier", "internal")
          /\ ~ in_aggregate(p, "internal", "customer")
          /\ \E r \in lines : r.product_id = p /\ r.times_received = 1 /\ r.times_delivered = 0
          /\ in_aggregate(q, "internal", "customer")
          /\ ~ in_aggregate(q, "supplier", "internal")

\* C3 as claimed: on every invocation that computes units_avg_delivered (it has a merged
\* line), the total of days is at least 1 and the division does not raise.
C3_TotalDaysAtLeastOne ==
    (status # "none" /\ Len(merged_lines(self)) > 0) =>
        (_get_total_days(self) >= 1 /\ error # "ZeroDivisionError")

\* Product p is associated with the commercial entity of the selected vendor: a
\* supplierinfo of that partner names p as its variant, or names the template of p,
\* whether or not it is bound to a variant (mapped("product_tmpl_id") runs over every
\* supplierinfo found, and every variant of those templates is added).
vendor_associated(p) ==
    \E s \in supplierinfos :
        /\ s.name = commercial_partner_id(partner_id)
        /\ \/ s.product_id = p
           \/ s.product_tmpl_id = product_tmpl_id(p)

\* C5: with show_all_partner_products and without show_all_products, every active,
\* purchasable product associated with the selected vendor that passes the category
\* filter has a row after action_show_results, and the row of such a product without
\* movements in the window has the four movement fields 0.
C5_AllVendorProductsShown ==
    (status = "done" /\ show_all_partner_products /\ ~ show_all_products) =>
        \A p \in Products :
            ( /\ p \in active /\ product_purchase_ok(p)
              /\ vendor_associated(p)
              /\ (product_category_ids = {} \/ categ_id(p) \in product_category_ids) )
            => \E r \in lines :
                  /\ r.product_id = p
                  /\ (counted(p, "supplier", "internal") = {}
                      /\ counted(p, "internal", "customer") = {})
                     => ( /\ r.times_received = 0 /\ r.units_received = 0
                          /\ r.times_delivered = 0 /\ r.units_delivered = 0 )

\* C5 witness: a category filter is set, the vendor is the contact of the company, the
\* ledger has lines, and a vendor product without movements has its row of zeros.
C5_Witness ==
    /\ status = "done" /\ show_all_partner_products /\ ~ show_all_products
    /\ product_category_ids # {} /\ partner_id = 2 /\ move_lines # <<>>
    /\ \E p \in active :
          /\ product_purchase_ok(p) /\ vendor_associated(p)
          /\ categ_id(p) \in product_category_ids
          /\ counted(p, "supplier", "internal") = {}
          /\ counted(p, "internal", "customer") = {}
          /\ \E r \in lines : r.product_id = p /\ r.times_delivered = 0 /\ r.units_received = 0

\* C6: an invocation without vendor and without show_all_products has no candidate
\* product, completes, and leaves the table empty, whatever the other flag and the dates.
C6_NoVendorEmptyReport ==
    (status # "none" /\ partner_id = NoId /\ ~ show_all_products) =>
        /\ _get_products(self) = <<>>
        /\ status = "done" /\ error = ""
        /\ lines = {}

\* C6 witness: such an invocation has completed, with show_all_partner_products set and
\* a window of no day, on a database that has supplierinfos and ledger lines.
C6_Witness ==
    /\ status = "done" /\ partner_id = NoId /\ ~ show_all_products
    /\ show_all_partner_products /\ _get_total_days(self) = 0
    /\ supplierinfos # {} /\ move_lines # <<>>
    /\ lines = {}

\* C8: the only error of an invocation whose collaborators answer is the division's;
\* after a completed invocation every merged product for which _select_seller returns
\* no seller has its row, with vendor and currency unset (False) and price_unit at the
\* null value of a float field, 0.0.
C8_NoSellerRowHasNulls ==
    /\ status = "error" => raises_ZeroDivisionError(self)
    /\ status = "done" =>
          \A p \in od_keys(merged_lines(self)) :
              _select_seller(p, partner_id) = <<>>
              => /\ \E r \in lines : r.product_id = p
                 /\ \A r \in lines :
                       r.product_id = p
                       => r.partner_id = NoId /\ r.currency_id = NoId /\ r.price_unit = 0

\* C8 witness: a vendor is selected, and a product that no seller of this vendor sells
\* has its row without vendor.
C8_Witness ==
    /\ status = "done" /\ partner_id # NoId
    /\ \E r \in lines :
          /\ _select_seller(r.product_id, partner_id) = <<>>
          /\ r.partner_id = NoId /\ r.price_unit = 0

\* C9 as claimed: every row reports the done movements of its product inside the
\* window, also the row of a product that is in the report through show_all_products.
C9_RowsReportRealMovements ==
    status = "done" => \A r \in lines : reports_movements(r)

\* ------------------------------------------------------------------ properties of repeated invocations

\* The products a request reports: those of either aggregate and, with a flag set, the
\* candidates and (with show_all_products) the active purchasable products of the
\* selected categories.
report_products ==
    {p \in Products :
        \/ in_aggregate(p, "supplier", "internal")
        \/ in_aggregate(p, "internal", "customer")
        \/ /\ show_all_partner_products \/ show_all_products
           /\ p \in Range(_get_products(self))
        \/ /\ show_all_products
           /\ p \in active /\ product_purchase_ok(p)
           /\ (product_category_ids = {} \/ categ_id(p) \in product_category_ids)}

\* C2: after a completed invocation every row of the table was created by it (its id is
\* of this invocation's part of the id sequence), and the table has one row per
\* product of this invocation's request, whatever the table held before.
C2_TableHoldsLastRunOnly ==
    status = "done" =>
        /\ \A r \in lines : first_id <= r.id /\ r.id < next_id
        /\ Cardinality(lines) = Cardinality(report_products)
        /\ {r.product_id : r \in lines} = report_products

\* C2 witness: a completed invocation with rows of its own that began after the id
\* sequence had given out ids to the rows of earlier invocations.
C2_Witness ==
    /\ status = "done" /\ first_id > 1
    /\ lines # {}

C4_ModesExclusive ==
    show_all_products => (~ show_all_partner_products /\ partner_id = NoId)

\* ------------------------------------------------------------------ properties of two sessions

\* The values of the rows in the table, without their ids.
row_values == {[f \in DOMAIN r \ {"id"} |-> r[f]] : r \in lines}

\* The values of the rows that an invocation on wizard w computes.
computed_values(w) ==
    {_prepare_wizard_line(w, merged_lines(w)[i].val) : i \in 1..Len(merged_lines(w))}

\* C10 as claimed: once both invocations have returned, the table holds exactly the
\* rows computed by the one that returned last, one row per product.
C10_LastWriterWins ==
    (\A s \in Sessions : sess.pc[s] = "done") =>
        /\ row_values = computed_values(sess.wizard[sess.returned[Len(sess.returned)]])
        /\ \A r1 \in lines, r2 \in lines : r1.product_id = r2.product_id => r1 = r2

====
